---------------------------- MODULE Spec2Model ----------------------------
(***************************************************************************)
(* Earned Schedule re-plan simulation: the ES metric engine                *)
(* (static/js/es_calculator.js), the simulation driver (ESSimulation) and  *)
(* the page script that feeds it (static/js/app.js).                       *)
(*                                                                         *)
(* Numbers.  A JavaScript number is modelled as a pair <<n, d>>:           *)
(*   d > 0   the rational n/d in lowest terms,                             *)
(*   <<1,0>> +Infinity, <<-1,0>> -Infinity, <<0,0>> NaN.                   *)
(* Arithmetic is exact (the binary rounding of doubles is not modelled);   *)
(* the special values follow IEEE-754 as JavaScript does.  An array read   *)
(* outside the array (undefined) behaves as NaN in every numeric context   *)
(* the program puts it in.  A null period or duration is the integer Null. *)
(***************************************************************************)
EXTENDS Integers, Sequences, FiniteSets, TLC

\* ------------------------------------------------------------------------
\* JavaScript numbers
\* ------------------------------------------------------------------------
NaN == <<0, 0>>
PosInf == <<1, 0>>
NegInf == <<-1, 0>>
Null == -1

Abs(n) == IF n < 0 THEN -n ELSE n
Sign(n) == IF n < 0 THEN -1 ELSE IF n > 0 THEN 1 ELSE 0

RECURSIVE GCD(_, _)
GCD(a, b) == IF b = 0 THEN a ELSE GCD(b, a % b)

\* n/d in lowest terms with a positive denominator; d = 0 gives a special.
Norm(n, d) ==
    IF d = 0 THEN <<Sign(n), 0>>
    ELSE LET g == GCD(Abs(n), Abs(d))
             s == IF d < 0 THEN -1 ELSE 1
         IN  <<s * (n \div g), s * (d \div g)>>

Num(i) == <<i, 1>>
Frac(n, d) == Norm(n, d)

IsNaN(x) == x = NaN
IsFinite(x) == x[2] > 0

Neg(x) == <<-x[1], x[2]>>

Add(x, y) ==
    IF IsFinite(x) /\ IsFinite(y) THEN Norm(x[1] * y[2] + y[1] * x[2], x[2] * y[2])
    ELSE IF IsNaN(x) \/ IsNaN(y) THEN NaN
    ELSE IF IsFinite(x) THEN y
    ELSE IF IsFinite(y) THEN x
    ELSE IF x = y THEN x ELSE NaN

Sub(x, y) == Add(x, Neg(y))

Mul(x, y) == Norm(x[1] * y[1], x[2] * y[2])

\* 1/x; 1/0 is +Infinity (the program never produces a negative zero divisor).
Recip(x) == IF x[1] < 0 THEN <<-x[2], -x[1]>> ELSE <<x[2], x[1]>>

Div(x, y) == Mul(x, Recip(y))

\* x < y, false when either is NaN.
Lt(x, y) ==
    IF IsNaN(x) \/ IsNaN(y) THEN FALSE
    ELSE IF IsFinite(x) \/ IsFinite(y) THEN x[1] * y[2] < y[1] * x[2]
    ELSE x = NegInf /\ y = PosInf

Gt(x, y) == Lt(y, x)
Le(x, y) == ~IsNaN(x) /\ ~IsNaN(y) /\ ~Lt(y, x)
Ge(x, y) == Le(y, x)

\* Math.min / Math.max: NaN if either argument is NaN.
MathMin(x, y) == IF IsNaN(x) \/ IsNaN(y) THEN NaN ELSE IF Lt(y, x) THEN y ELSE x
MathMax(x, y) == IF IsNaN(x) \/ IsNaN(y) THEN NaN ELSE IF Lt(x, y) THEN y ELSE x

\* Math.abs(x) < 1e-9 and Math.abs(x) > 1e-9, without forming n * 10^9.
EpsDen == 1000000000
AbsLtEps(x) == IsFinite(x) /\ Abs(x[1]) <= (x[2] - 1) \div EpsDen
AbsGtEps(x) == ~IsNaN(x) /\ (~IsFinite(x) \/ Abs(x[1]) > x[2] \div EpsDen)

\* Number.prototype.toFixed(2) read back by parseFloat: the nearest multiple
\* of 1/100, a tie going to the larger magnitude; "Infinity", "-Infinity" and
\* "NaN" read back as themselves.
ToFixed2(x) ==
    IF ~IsFinite(x) THEN x
    ELSE LET a == Abs(x[1])
             q == (200 * a + x[2]) \div (2 * x[2])
         IN  Norm(Sign(x[1]) * q, 100)

\* ------------------------------------------------------------------------
\* Arrays (0-indexed in the program, 1-indexed sequences here)
\* ------------------------------------------------------------------------
At(s, i) == IF i >= 0 /\ i < Len(s) THEN s[i + 1] ELSE NaN
LastOf(s) == At(s, Len(s) - 1)
Push(s, v) == Append(s, v)
\* Array.prototype.slice(from) and slice(0, to)
SliceFrom(s, from) == IF from >= Len(s) THEN <<>> ELSE SubSeq(s, from + 1, Len(s))
SliceTo(s, to) == SubSeq(s, 1, IF to < Len(s) THEN to ELSE Len(s))
SetMin(S) == CHOOSE m \in S : \A o \in S : m <= o


\* ------------------------------------------------------------------------
\* ESCalculator (static/js/es_calculator.js)
\* ------------------------------------------------------------------------
NoIndex == -2

\* Variant: the loop without its "EV >= last PV" branch.
FindCNoLast(evCum, pvCum) ==
    LET above == {i \in 0..(Len(pvCum) - 1) : Gt(At(pvCum, i), evCum)}
    IN  IF above # {} THEN SetMin(above) - 1 ELSE NoIndex

\* The loop of calculateEarnedSchedule: C is one less than the first index
\* whose PV exceeds evCum, the last index when none does, null (NoIndex) for
\* an empty series.
FindC(evCum, pvCum) ==
    LET above == {i \in 0..(Len(pvCum) - 1) : Gt(At(pvCum, i), evCum)}
    IN  IF above # {} THEN SetMin(above) - 1
        ELSE IF Len(pvCum) = 0 THEN NoIndex
        ELSE Len(pvCum) - 1

\* Variant: the fraction measured from zero instead of from PV_C.
InterpolateFromZero(evCum, PV_C, PV_next) ==
    IF AbsGtEps(Sub(PV_next, PV_C))
    THEN Div(evCum, Sub(PV_next, PV_C))
    ELSE Num(0)

\* Variant: the fraction measured down from PV_next.
InterpolateReversed(evCum, PV_C, PV_next) ==
    IF AbsGtEps(Sub(PV_next, PV_C))
    THEN Div(Sub(PV_next, evCum), Sub(PV_next, PV_C))
    ELSE Num(0)

\* The interpolation fraction I, 0 when the two planned values coincide.
Interpolate(evCum, PV_C, PV_next) ==
    IF AbsGtEps(Sub(PV_next, PV_C))
    THEN Div(Sub(evCum, PV_C), Sub(PV_next, PV_C))
    ELSE Num(0)

\* Variant: the result without the shift to 1-indexed periods.
EarnedScheduleAtZeroBased(C, evCum, pvCum) ==
    IF C = NoIndex \/ C < 0 THEN Num(0)
    ELSE IF C = Len(pvCum) - 1 \/ AbsLtEps(Sub(At(pvCum, C), evCum))
    THEN Num(C)
    ELSE Add(Num(C), Interpolate(evCum, At(pvCum, C), At(pvCum, C + 1)))

\* The result of calculateEarnedSchedule once C is known.
EarnedScheduleAt(C, evCum, pvCum) ==
    IF C = NoIndex \/ C < 0 THEN Num(0)
    ELSE IF C = Len(pvCum) - 1 \/ AbsLtEps(Sub(At(pvCum, C), evCum))
    THEN Num(C + 1)
    ELSE Add(Num(C + 1), Interpolate(evCum, At(pvCum, C), At(pvCum, C + 1)))

calculateEarnedSchedule(evCum, pvCum) ==
    EarnedScheduleAt(FindC(evCum, pvCum), evCum, pvCum)

\* Variant: SPI_t without the actualTime guard.
RawSPItUnguarded(ES, actualTime) == Div(ES, Num(actualTime))

\* SPI_t before formatting: 1.0 unless actualTime > 0.
RawSPIt(ES, actualTime) ==
    IF actualTime > 0 THEN Div(ES, Num(actualTime)) ELSE Num(1)

\* The fields every record has.  Every field is a toFixed(2) string in the
\* program; the model holds the number that string reads back as.
BaseFields(ES, SPI_t, actualTime) ==
    [ES |-> ToFixed2(ES),
     SV_t |-> ToFixed2(Sub(ES, Num(actualTime))),
     SPI_t |-> ToFixed2(SPI_t)]

NoFields == [f \in {} |-> NaN]

\* Variant: IEAC(t)_M starts from 0 instead of from positive infinity.
RawIEACtMZeroDefault(SPI_t, milestoneDuration) ==
    IF Gt(SPI_t, Num(0)) THEN Div(Num(milestoneDuration), SPI_t) ELSE Num(0)

\* IEAC(t)_M before formatting.
RawIEACtM(SPI_t, milestoneDuration) ==
    IF Gt(SPI_t, Num(0)) THEN Div(Num(milestoneDuration), SPI_t) ELSE PosInf

\* Variant: TSPI_M without the milestoneDuration guard.
RawTSPIMUnguarded(ES, actualTime, milestoneDuration) ==
    Div(Sub(Num(milestoneDuration), ES), Num(milestoneDuration - actualTime))

\* TSPI_M before formatting.
RawTSPIM(ES, actualTime, milestoneDuration) ==
    IF milestoneDuration # actualTime
    THEN Div(Sub(Num(milestoneDuration), ES), Num(milestoneDuration - actualTime))
    ELSE PosInf

\* Variant: the milestone fields are added without the null test; a null
\* duration then counts as 0 in the arithmetic.
MilestoneFieldsAlways(ES, SPI_t, actualTime, milestoneDuration) ==
    [IEAC_t_M |-> ToFixed2(RawIEACtM(SPI_t, IF milestoneDuration = Null THEN 0
                                            ELSE milestoneDuration)),
     F_SV_t |-> ToFixed2(Sub(Num(IF milestoneDuration = Null THEN 0 ELSE milestoneDuration),
                             RawIEACtM(SPI_t, IF milestoneDuration = Null THEN 0
                                              ELSE milestoneDuration))),
     TSPI_M |-> ToFixed2(RawTSPIM(ES, actualTime, IF milestoneDuration = Null THEN 0
                                                  ELSE milestoneDuration))]

\* The milestone fields, added when milestoneDuration is not null.
MilestoneFields(ES, SPI_t, actualTime, milestoneDuration) ==
    IF milestoneDuration = Null THEN NoFields
    ELSE [IEAC_t_M |-> ToFixed2(RawIEACtM(SPI_t, milestoneDuration)),
          F_SV_t |-> ToFixed2(Sub(Num(milestoneDuration),
                                  RawIEACtM(SPI_t, milestoneDuration))),
          TSPI_M |-> ToFixed2(RawTSPIM(ES, actualTime, milestoneDuration))]

\* Variant: the post-re-plan SPI(t) is computed whenever a re-plan is given.
RemSPItUnguarded(pvValues, evValues, actualTime, replanTime, SPI_t) ==
    Div(calculateEarnedSchedule(LastOf(SliceFrom(evValues, replanTime)),
                                SliceFrom(pvValues, replanTime)),
        Num(actualTime - replanTime))

\* SPI(t) of the work after the re-plan; the overall SPI_t when there is none.
RemSPIt(pvValues, evValues, actualTime, replanTime, SPI_t) ==
    IF actualTime > replanTime
          /\ actualTime - replanTime > 0
          /\ Len(SliceFrom(evValues, replanTime)) > 0
    THEN Div(calculateEarnedSchedule(LastOf(SliceFrom(evValues, replanTime)),
                                     SliceFrom(pvValues, replanTime)),
             Num(actualTime - replanTime))
    ELSE SPI_t

\* IEAC(t) of the re-plan scenario before formatting.
RawIEACtRP(D_pre, PD_rem, SPI_t_rem) ==
    IF Gt(SPI_t_rem, Num(0)) THEN Add(Num(D_pre), Div(Num(PD_rem), SPI_t_rem))
    ELSE PosInf

ReplanRecord(D_pre, PD_rem, SPI_t_rem) ==
    [D_pre |-> ToFixed2(Num(D_pre)),
     PD_rem |-> ToFixed2(Num(PD_rem)),
     SPI_t_rem |-> ToFixed2(SPI_t_rem),
     IEAC_t_RP |-> ToFixed2(RawIEACtRP(D_pre, PD_rem, SPI_t_rem))]

\* The re-plan fields, added when replanTime is not null.
ReplanFields(pvValues, evValues, actualTime, replanTime, SPI_t) ==
    IF replanTime = Null THEN NoFields
    ELSE ReplanRecord(replanTime, Len(pvValues) - replanTime,
                      RemSPIt(pvValues, evValues, actualTime, replanTime, SPI_t))

\* The record calculateMetrics builds once ES and SPI_t are known.
MetricsRecord(ES, SPI_t, pvValues, evValues, actualTime, milestoneDuration, replanTime) ==
    BaseFields(ES, SPI_t, actualTime)
        @@ MilestoneFields(ES, SPI_t, actualTime, milestoneDuration)
        @@ ReplanFields(pvValues, evValues, actualTime, replanTime, SPI_t)

MetricsFromES(ES, pvValues, evValues, actualTime, milestoneDuration, replanTime) ==
    MetricsRecord(ES, RawSPIt(ES, actualTime), pvValues, evValues, actualTime,
                  milestoneDuration, replanTime)

calculateMetrics(pvValues, evValues, actualTime, milestoneDuration, replanTime) ==
    MetricsFromES(calculateEarnedSchedule(LastOf(evValues), pvValues),
                  pvValues, evValues, actualTime, milestoneDuration, replanTime)

\* ------------------------------------------------------------------------
\* Bounds and input sets
\* ------------------------------------------------------------------------
MaxSteps == 2
MaxCalls == MaxSteps + 1

Scenarios == {"recovery", "slippage", "maintain"}
StepsInputs == 0..MaxSteps
MilestoneInputs == {4, 10}
CurrentPeriodInputs == {0, 3, 4, 5}

\* addDefaultData: the demonstration data, EV entered up to period 3.
defaultPV == <<Num(10), Num(25), Num(45), Num(70), Num(100)>>
defaultEV == <<Num(8), Num(20), Num(38), Num(60), Num(0)>>
defaultCurrentPeriod == 3

\* The calculator called on its own: series of up to MaxLen planned values.
MaxLen == 3
CalcPVValues == {Num(10), Num(25), Num(45)}
CalcEVValues == {Num(5), Num(10), Num(20), Num(38), Num(45), Num(50)}
CalcATInputs == 0..2
CalcMDInputs == {Null, 2, 4}
CalcRPInputs == {Null, 0, 1}
SeqsUpTo(S, n) == UNION {[1..k -> S] : k \in 1..n}
CalcPVInputs == SeqsUpTo(CalcPVValues, MaxLen) \cup {defaultPV}
\* EV series: calculateMetrics reads only the last entry and the length.
CalcEVInputs == {[i \in 1..k |-> ev] : k \in 1..MaxLen, ev \in CalcEVValues}
NoResult == <<>>

NoTimer == 0
EmptyResults == [periods |-> <<>>, pvValues |-> <<>>, evValues |-> <<>>, metrics |-> <<>>]
EmptyMetrics == NoFields

\* ------------------------------------------------------------------------
\* State
\* ------------------------------------------------------------------------
VARIABLES
    pvValues, evValues,        \* appState.pvValues / evValues (periodCount is their length)
    currentPeriodInput,        \* the value of the #current-period input
    displayed,                 \* the #es-value, #spi-t-value and #sv-t-value texts
    isRunning, currentStep, maxSteps, simulationInterval, scenario,
    initialPV, initialEV, initialAT, milestoneDuration, replanEnabled, replanTime,
    currentPV, currentEV, currentAT, currentMetrics, simulationResults,
    timers,                    \* the interval timers the host has active
    stepCalls,                 \* history: runStep calls since the last initSimulation
    stopped,                   \* history: stopSimulation ran, and no runStep/startAutoPlay since
    calcPV, calcEV, calcAT, calcMD, calcRP,   \* arguments of a direct calculator call
    calcES, calcMetrics,       \* what calculateEarnedSchedule / calculateMetrics returned
    narIsInitial, narStep,     \* a direct generateAIAnalysis call: isInitial, currentStep,
    narSPIt, narFSVt, narTSPIM,    \* the SPI_t, F_SV_t and TSPI_M of currentMetrics,
    narPrevSPIt,               \* the SPI_t of the log entry before the current one,
    narResult                  \* and the classification its text is built from

appVars == <<pvValues, evValues, currentPeriodInput, displayed>>
paramVars == <<maxSteps, scenario, initialPV, initialEV, initialAT, milestoneDuration,
               replanEnabled, replanTime>>
dataVars == <<currentStep, currentPV, currentEV, currentAT, currentMetrics, simulationResults>>
ctlVars == <<isRunning, simulationInterval, timers>>
histVars == <<stepCalls, stopped>>
progVars == <<appVars, paramVars, dataVars, ctlVars, histVars>>
calcVars == <<calcPV, calcEV, calcAT, calcMD, calcRP, calcES, calcMetrics>>
narVars == <<narIsInitial, narStep, narSPIt, narFSVt, narTSPIM, narPrevSPIt, narResult>>
directVars == <<calcVars, narVars>>
vars == <<progVars, directVars>>

periodCount == Len(pvValues)

\* What calculateAndUpdateMetrics writes to the three displays for a period
\* within the data; they do not depend on the milestone or re-plan inputs.
DisplayFor(pv, ev, currentPeriod) ==
    calculateMetrics(SliceTo(pv, currentPeriod + 1), SliceTo(ev, currentPeriod + 1),
                     currentPeriod, Null, Null)

\* The displays showing '-'.
NoDisplay == NoFields

\* The ESSimulation constructor followed by the page's DOMContentLoaded handler.
InitProgram ==
    /\ pvValues = defaultPV
    /\ evValues = defaultEV
    /\ currentPeriodInput = defaultCurrentPeriod
    /\ displayed = DisplayFor(defaultPV, defaultEV, defaultCurrentPeriod)
    /\ isRunning = FALSE
    /\ currentStep = 0
    /\ maxSteps = 0
    /\ simulationInterval = NoTimer
    /\ scenario = "recovery"
    /\ initialPV = <<>>
    /\ initialEV = <<>>
    /\ initialAT = 0
    /\ milestoneDuration = 10
    /\ replanEnabled = FALSE
    /\ replanTime = Null
    /\ currentPV = <<>>
    /\ currentEV = <<>>
    /\ currentAT = 0
    /\ currentMetrics = EmptyMetrics
    /\ simulationResults = EmptyResults
    /\ timers = {}
    /\ stepCalls = 0
    /\ stopped = FALSE

\* No direct calculator call is in progress.
CalcIdle ==
    /\ calcPV = <<>> /\ calcEV = <<>> /\ calcAT = 0 /\ calcMD = Null /\ calcRP = Null
    /\ calcES = NoResult /\ calcMetrics = NoResult

\* No direct generateAIAnalysis call is in progress.
NarIdle ==
    /\ narIsInitial = TRUE /\ narStep = 0
    /\ narSPIt = Num(1) /\ narFSVt = Num(0) /\ narTSPIM = Num(1) /\ narPrevSPIt = Num(1)
    /\ narResult = NoResult

Init == InitProgram /\ CalcIdle /\ NarIdle

\* ------------------------------------------------------------------------
\* Page script (static/js/app.js)
\* ------------------------------------------------------------------------
\* calculateAndUpdateMetrics: beyond the displays it redraws, its only effect
\* is to pull a current period that exceeds the data back to the last period.
ClampedPeriod(currentPeriod, count) ==
    IF currentPeriod >= count THEN count - 1 ELSE currentPeriod

\* Variant: the period is pulled back and the metrics are then computed.
calculateAndUpdateMetricsClamping(currentPeriod) ==
    /\ currentPeriodInput' = ClampedPeriod(currentPeriod, periodCount)
    /\ displayed' = DisplayFor(pvValues, evValues, ClampedPeriod(currentPeriod, periodCount))

\* calculateAndUpdateMetrics with currentPeriod read from the input.
calculateAndUpdateMetrics(currentPeriod) ==
    IF currentPeriod >= periodCount
    THEN /\ currentPeriodInput' = ClampedPeriod(currentPeriod, periodCount)
         /\ displayed' = displayed
    ELSE /\ currentPeriodInput' = currentPeriod
         /\ displayed' = DisplayFor(pvValues, evValues, currentPeriod)

\* 'change' on the #current-period input.
SetCurrentPeriod(v) ==
    /\ calculateAndUpdateMetrics(v)
    /\ UNCHANGED <<pvValues, evValues, paramVars, dataVars, ctlVars, histVars, directVars>>

\* The Reset button: the table and the inputs go back to the default data;
\* the simulation object is not touched.
ResetApp ==
    /\ pvValues' = defaultPV
    /\ evValues' = defaultEV
    /\ currentPeriodInput' = ClampedPeriod(defaultCurrentPeriod, Len(defaultPV))
    /\ displayed' = NoDisplay
    /\ UNCHANGED <<paramVars, dataVars, ctlVars, histVars, directVars>>

\* ------------------------------------------------------------------------
\* ESSimulation
\* ------------------------------------------------------------------------
\* Variant: replanTime is taken from the series length, not from actualTime.
initSimulationReplanAtEnd(pv, ev, actualTime, md, steps, scen, replan) ==
    /\ initialPV' = pv
    /\ initialEV' = ev
    /\ initialAT' = actualTime
    /\ milestoneDuration' = md
    /\ maxSteps' = steps
    /\ scenario' = scen
    /\ replanEnabled' = replan
    /\ replanTime' = (IF replan THEN Len(pv) ELSE Null)
    /\ currentStep' = 0
    /\ currentPV' = pv
    /\ currentEV' = ev
    /\ currentAT' = actualTime
    /\ simulationResults' = EmptyResults
    /\ currentMetrics' = calculateMetrics(pv, ev, actualTime, md,
                                          IF replan THEN Len(pv) ELSE Null)
    /\ stepCalls' = 0
    /\ UNCHANGED <<ctlVars, stopped>>

\* Variant: the initial record is entered in the log as period actualTime.
initSimulationLogsInitial(pv, ev, actualTime, md, steps, scen, replan) ==
    \E metrics \in {calculateMetrics(pv, ev, actualTime, md,
                                     IF replan THEN actualTime ELSE Null)} :
        /\ initialPV' = pv
        /\ initialEV' = ev
        /\ initialAT' = actualTime
        /\ milestoneDuration' = md
        /\ maxSteps' = steps
        /\ scenario' = scen
        /\ replanEnabled' = replan
        /\ replanTime' = (IF replan THEN actualTime ELSE Null)
        /\ currentStep' = 0
        /\ currentPV' = pv
        /\ currentEV' = ev
        /\ currentAT' = actualTime
        /\ simulationResults' =
               [periods |-> <<actualTime>>, pvValues |-> <<LastOf(pv)>>,
                evValues |-> <<LastOf(ev)>>, metrics |-> <<metrics>>]
        /\ currentMetrics' = metrics
        /\ stepCalls' = 0
        /\ UNCHANGED <<ctlVars, stopped>>

initSimulation(pv, ev, actualTime, md, steps, scen, replan) ==
    /\ initialPV' = pv
    /\ initialEV' = ev
    /\ initialAT' = actualTime
    /\ milestoneDuration' = md
    /\ maxSteps' = steps
    /\ scenario' = scen
    /\ replanEnabled' = replan
    /\ replanTime' = (IF replan THEN actualTime ELSE Null)
    /\ currentStep' = 0
    /\ currentPV' = pv
    /\ currentEV' = ev
    /\ currentAT' = actualTime
    /\ simulationResults' = EmptyResults
    /\ currentMetrics' = calculateMetrics(pv, ev, actualTime, md,
                                          IF replan THEN actualTime ELSE Null)
    /\ stepCalls' = 0
    /\ UNCHANGED <<ctlVars, stopped>>

\* The Simulate button: startSimulation in app.js.
StartSimulation(md, steps, scen, replan) ==
    LET currentPeriod == currentPeriodInput
    IN  /\ IF currentPeriod >= periodCount
           THEN UNCHANGED <<paramVars, dataVars, ctlVars, histVars>>
           ELSE initSimulation(SliceTo(pvValues, currentPeriod + 1),
                               SliceTo(evValues, currentPeriod + 1),
                               currentPeriod, md, steps, scen, replan)
        /\ UNCHANGED <<appVars, directVars>>

\* Variant: the guard lets one step too many through.
StepsExhaustedOffByOne == currentStep > maxSteps

\* runStep's guard: nothing left to run.
StepsExhausted == currentStep >= maxSteps

\* Variant: the increment of the last period instead of the average.
AvgIncrementRecent(pv) == Sub(LastOf(pv), At(pv, Len(pv) - 2))

\* Variant: the span divided by the number of entries.
AvgIncrementByLength(pv) == Div(Sub(LastOf(pv), At(pv, 0)), Num(Len(pv)))

\* Average PV increment over the whole current series, used to extend it.
AvgIncrement(pv) == Div(Sub(LastOf(pv), At(pv, 0)), Num(Len(pv) - 1))

\* Variant: the PV series is never extended.
ExtendPVNever(pv, nextPeriod) == pv

ExtendPV(pv, nextPeriod) ==
    IF Len(pv) <= nextPeriod THEN Push(pv, Add(LastOf(pv), AvgIncrement(pv))) ELSE pv

\* parseFloat(metrics.SPI_t): NaN when the record has no such field.
ParsedSPIt(metrics) == IF "SPI_t" \in DOMAIN metrics THEN metrics.SPI_t ELSE NaN

\* Variant: the recovery and slippage adjustments are exchanged.
TargetSPItExchanged(scen, currentSPIt) ==
    IF scen = "recovery" THEN MathMax(Frac(7, 10), Sub(currentSPIt, Frac(3, 100)))
    ELSE IF scen = "slippage" THEN MathMin(Num(1), Add(currentSPIt, Frac(5, 100)))
    ELSE currentSPIt

\* Variant: every scenario keeps the current rate.
TargetSPItMaintainAll(scen, currentSPIt) == currentSPIt

\* Variant: the scenario adjustments without their clamps.
TargetSPItUnclamped(scen, currentSPIt) ==
    IF scen = "recovery" THEN Add(currentSPIt, Frac(5, 100))
    ELSE IF scen = "slippage" THEN Sub(currentSPIt, Frac(3, 100))
    ELSE currentSPIt

\* The factor applied to the PV increment, from the SPI_t of the current
\* metrics record.
TargetSPIt(scen, currentSPIt) ==
    IF scen = "recovery" THEN MathMin(Num(1), Add(currentSPIt, Frac(5, 100)))
    ELSE IF scen = "slippage" THEN MathMax(Frac(7, 10), Sub(currentSPIt, Frac(3, 100)))
    ELSE currentSPIt

\* The period, PV series and EV value of the step being run.
NextPeriod == currentAT + 1
NextPV == ExtendPV(currentPV, NextPeriod)
NextEV(pv) ==
    Add(LastOf(currentEV),
        Mul(TargetSPIt(scenario, ParsedSPIt(currentMetrics)),
            Sub(At(pv, NextPeriod), At(pv, NextPeriod - 1))))

\* Variant: the period array receives the step's index instead of its period.
StoreResultsStepIndex(results, period, pv, ev, metrics) ==
    [periods |-> Push(results.periods, Len(results.periods) + 1),
     pvValues |-> Push(results.pvValues, pv),
     evValues |-> Push(results.evValues, ev),
     metrics |-> Push(results.metrics, metrics)]

\* Variant: the metrics array keeps only the latest record.
StoreResultsLatestMetrics(results, period, pv, ev, metrics) ==
    [periods |-> Push(results.periods, period),
     pvValues |-> Push(results.pvValues, pv),
     evValues |-> Push(results.evValues, ev),
     metrics |-> <<metrics>>]

\* "Store simulation results": one entry pushed on each of the four arrays.
StoreResults(results, period, pv, ev, metrics) ==
    [periods |-> Push(results.periods, period),
     pvValues |-> Push(results.pvValues, pv),
     evValues |-> Push(results.evValues, ev),
     metrics |-> Push(results.metrics, metrics)]

\* Variant: the metrics are computed before the new EV is pushed.
StepBodyMetricsBeforePush ==
    \E pv \in {NextPV} :
    \E nextEV \in {NextEV(pv)} :
    \E metrics \in {calculateMetrics(pv, currentEV, NextPeriod,
                                     milestoneDuration, replanTime)} :
        /\ currentStep' = currentStep + 1
        /\ currentPV' = pv
        /\ currentEV' = Push(currentEV, nextEV)
        /\ currentAT' = NextPeriod
        /\ currentMetrics' = metrics
        /\ simulationResults' =
               StoreResults(simulationResults, NextPeriod, At(pv, NextPeriod), nextEV, metrics)

\* The body of runStep below its guard, as far as the simulation data goes.
StepBody ==
    /\ currentStep' = currentStep + 1
    /\ \E pv \in {NextPV} :
       \E nextEV \in {NextEV(pv)} :
       \E metrics \in {calculateMetrics(pv, Push(currentEV, nextEV), NextPeriod,
                                        milestoneDuration, replanTime)} :
        /\ currentPV' = pv
        /\ currentEV' = Push(currentEV, nextEV)
        /\ currentAT' = NextPeriod
        /\ currentMetrics' = metrics
        /\ simulationResults' =
               StoreResults(simulationResults, NextPeriod, At(pv, NextPeriod), nextEV, metrics)

\* Variant: the step counter is incremented before the guard is tested.
runStepCountsFirst ==
    IF StepsExhausted
    THEN /\ currentStep' = currentStep + 1
         /\ UNCHANGED <<currentPV, currentEV, currentAT, currentMetrics, simulationResults>>
    ELSE StepBody

\* Variant: runStep without its guard.
runStepUnguarded == StepBody

\* runStep, as far as the simulation data goes.
runStep == IF StepsExhausted THEN UNCHANGED dataVars ELSE StepBody

\* Variant: runStep leaves the timer to its callback.
ClearsTimerNever == FALSE

\* runStep's last lines: this call completes the simulation while a timer
\* handle is held, so the timer is cleared and isRunning reset.
ClearsTimer ==
    ~StepsExhausted /\ currentStep + 1 >= maxSteps /\ simulationInterval # NoTimer

CountCall == IF stepCalls < MaxCalls THEN stepCalls + 1 ELSE stepCalls

\* The Step button.
RunStep ==
    /\ runStep
    /\ IF ClearsTimer
       THEN /\ timers' = timers \ {simulationInterval}
            /\ simulationInterval' = NoTimer
            /\ isRunning' = FALSE
       ELSE UNCHANGED ctlVars
    /\ stepCalls' = CountCall
    /\ stopped' = FALSE
    /\ UNCHANGED <<directVars, appVars, paramVars>>

\* setInterval: a handle no active timer has.
NewTimer(active) == SetMin({t \in 1..(Cardinality(active) + 1) : t \notin active})

\* The timers left active by the runStep call inside startAutoPlay.
TimersAfterStep == IF ClearsTimer THEN timers \ {simulationInterval} ELSE timers

\* Variant: startAutoPlay without its isRunning guard.
StartAutoPlayUnguarded ==
    /\ runStep
    /\ isRunning' = ~ClearsTimer
    /\ simulationInterval' = NewTimer(TimersAfterStep)
    /\ timers' = TimersAfterStep \cup {NewTimer(TimersAfterStep)}
    /\ stepCalls' = CountCall
    /\ stopped' = FALSE
    /\ UNCHANGED <<directVars, appVars, paramVars>>

\* Variant: startAutoPlay leaves the first step to the timer.
StartAutoPlayDeferred ==
    IF isRunning
    THEN /\ stopped' = FALSE
         /\ UNCHANGED <<directVars, appVars, paramVars, dataVars, ctlVars, stepCalls>>
    ELSE /\ isRunning' = TRUE
         /\ simulationInterval' = NewTimer(timers)
         /\ timers' = timers \cup {NewTimer(timers)}
         /\ stopped' = FALSE
         /\ UNCHANGED <<directVars, appVars, paramVars, dataVars, stepCalls>>

\* The Play button.
StartAutoPlay ==
    IF isRunning
    THEN /\ stopped' = FALSE
         /\ UNCHANGED <<directVars, appVars, paramVars, dataVars, ctlVars, stepCalls>>
    ELSE /\ runStep
         /\ isRunning' = ~ClearsTimer
         /\ simulationInterval' = NewTimer(TimersAfterStep)
         /\ timers' = TimersAfterStep \cup {NewTimer(TimersAfterStep)}
         /\ stepCalls' = CountCall
         /\ stopped' = FALSE
         /\ UNCHANGED <<directVars, appVars, paramVars>>

\* Variant: the callback's completion branch leaves isRunning set.
TimerTickKeepsRunning(t) ==
    /\ t \in timers
    /\ IF StepsExhausted
       THEN /\ timers' = timers \ {simulationInterval}
            /\ simulationInterval' = NoTimer
            /\ UNCHANGED <<isRunning, dataVars, stepCalls>>
       ELSE /\ runStep
            /\ IF ClearsTimer
               THEN /\ timers' = timers \ {simulationInterval}
                    /\ simulationInterval' = NoTimer
                    /\ isRunning' = FALSE
               ELSE UNCHANGED ctlVars
            /\ stepCalls' = CountCall
    /\ UNCHANGED <<directVars, appVars, paramVars, stopped>>

\* One firing of the interval callback installed by startAutoPlay.
TimerTick(t) ==
    /\ t \in timers
    /\ IF StepsExhausted
       THEN /\ timers' = timers \ {simulationInterval}
            /\ simulationInterval' = NoTimer
            /\ isRunning' = FALSE
            /\ UNCHANGED <<dataVars, stepCalls>>
       ELSE /\ runStep
            /\ IF ClearsTimer
               THEN /\ timers' = timers \ {simulationInterval}
                    /\ simulationInterval' = NoTimer
                    /\ isRunning' = FALSE
               ELSE UNCHANGED ctlVars
            /\ stepCalls' = CountCall
    /\ UNCHANGED <<directVars, appVars, paramVars, stopped>>

Tick == \E t \in timers : TimerTick(t)

\* Variant: stop resets the flags but never calls clearInterval.
StopNoClear ==
    /\ isRunning' = FALSE
    /\ stopped' = TRUE
    /\ UNCHANGED <<directVars, appVars, paramVars, dataVars, stepCalls, simulationInterval, timers>>

\* Variant: stop also rewinds the step counter.
StopRewinds ==
    /\ timers' = (IF simulationInterval # NoTimer THEN timers \ {simulationInterval}
                  ELSE timers)
    /\ simulationInterval' = NoTimer
    /\ isRunning' = FALSE
    /\ stopped' = TRUE
    /\ currentStep' = 0
    /\ UNCHANGED <<directVars, appVars, paramVars, stepCalls, currentPV, currentEV, currentAT,
                   currentMetrics, simulationResults>>

\* The Stop button.
StopSimulation ==
    /\ timers' = (IF simulationInterval # NoTimer THEN timers \ {simulationInterval}
                  ELSE timers)
    /\ simulationInterval' = NoTimer
    /\ isRunning' = FALSE
    /\ stopped' = TRUE
    /\ UNCHANGED <<directVars, appVars, paramVars, dataVars, stepCalls>>

Next ==
    \/ \E v \in CurrentPeriodInputs : SetCurrentPeriod(v)
    \/ ResetApp
    \/ \E md \in MilestoneInputs, steps \in StepsInputs, scen \in Scenarios,
          replan \in BOOLEAN : StartSimulation(md, steps, scen, replan)
    \/ RunStep
    \/ StartAutoPlay
    \/ Tick
    \/ StopSimulation

Spec == Init /\ [][Next]_vars

\* ------------------------------------------------------------------------
\* The calculator on its own (esCalculator is a global any script may call)
\* ------------------------------------------------------------------------
CalcInit ==
    /\ InitProgram
    /\ calcPV \in CalcPVInputs
    /\ calcEV \in CalcEVInputs
    /\ calcAT \in CalcATInputs
    /\ calcMD \in CalcMDInputs
    /\ calcRP \in CalcRPInputs
    /\ calcES = NoResult
    /\ calcMetrics = NoResult
    /\ NarIdle

CallEarnedSchedule ==
    /\ calcES = NoResult
    /\ calcES' = calculateEarnedSchedule(LastOf(calcEV), calcPV)
    /\ UNCHANGED <<progVars, narVars, calcPV, calcEV, calcAT, calcMD, calcRP, calcMetrics>>

\* Variant: the post-re-plan series is cut out of the caller's array (splice)
\* instead of being copied from it (slice).
CallMetricsSplicing ==
    /\ calcMetrics = NoResult
    /\ calcMetrics' = calculateMetrics(calcPV, calcEV, calcAT, calcMD, calcRP)
    /\ calcPV' = (IF calcRP # Null /\ calcAT > calcRP THEN SliceTo(calcPV, calcRP)
                  ELSE calcPV)
    /\ UNCHANGED <<progVars, narVars, calcEV, calcAT, calcMD, calcRP, calcES>>

CallMetrics ==
    /\ calcMetrics = NoResult
    /\ calcMetrics' = calculateMetrics(calcPV, calcEV, calcAT, calcMD, calcRP)
    /\ UNCHANGED <<progVars, narVars, calcPV, calcEV, calcAT, calcMD, calcRP, calcES>>

CalcNext == CallEarnedSchedule \/ CallMetrics

CalcSpec == CalcInit /\ [][CalcNext]_vars

\* ------------------------------------------------------------------------
\* The simulation on its own (esSimulation is a global; its host calls
\* initSimulation with series of its choosing)
\* ------------------------------------------------------------------------
\* <<pvValues, evValues, actualTime>>: the series cut at the current period as
\* the page passes them, the whole plan with EV up to the current period,
\* and a short series on which nothing planned has been earned (SPI_t = 0).
CoreInputs ==
    {<<SliceTo(defaultPV, 4), SliceTo(defaultEV, 4), 3>>,
     <<defaultPV, SliceTo(defaultEV, 4), 3>>,
     <<<<Num(10), Num(25)>>, <<Num(5), Num(8)>>, 1>>}

\* esSimulation.initSimulation called by the host.
InitSimulationCall(in, md, steps, scen, replan) ==
    /\ initSimulation(in[1], in[2], in[3], md, steps, scen, replan)
    /\ UNCHANGED <<appVars, directVars>>

CoreNext ==
    \/ \E in \in CoreInputs, md \in MilestoneInputs, steps \in StepsInputs,
          scen \in Scenarios, replan \in BOOLEAN :
              InitSimulationCall(in, md, steps, scen, replan)
    \/ RunStep
    \/ StartAutoPlay
    \/ Tick
    \/ StopSimulation

CoreSpec == Init /\ [][CoreNext]_vars

\* ------------------------------------------------------------------------
\* generateAIAnalysis: the classification its text is built from
\* ------------------------------------------------------------------------
\* Variant: the 0.9 threshold counts as significantly behind.
StatusAnalysisInclusive(spiT) ==
    IF Le(spiT, Frac(9, 10)) THEN "significantly behind"
    ELSE IF Lt(spiT, Num(1)) THEN "slightly behind"
    ELSE "on or ahead"

StatusAnalysis(spiT) ==
    IF Lt(spiT, Frac(9, 10)) THEN "significantly behind"
    ELSE IF Lt(spiT, Num(1)) THEN "slightly behind"
    ELSE "on or ahead"

MilestoneAnalysis(fSvT) ==
    IF Lt(fSvT, Num(-1)) THEN "significantly late"
    ELSE IF Lt(fSvT, Num(0)) THEN "slightly late"
    ELSE "on time or early"

TspiAnalysis(tspiM) ==
    IF Gt(tspiM, Frac(12, 10)) THEN "significant"
    ELSE IF Gt(tspiM, Num(1)) THEN "some"
    ELSE "sufficient"

\* The trend sentence is left empty on the first step.
TrendAnalysis(step, spiT, prevSpiT) ==
    IF step > 1
    THEN IF Gt(spiT, prevSpiT) THEN "improving"
         ELSE IF Lt(spiT, prevSpiT) THEN "declining"
         ELSE "stable"
    ELSE ""

\* The initial analysis states the status only.
generateAIAnalysis(isInitial, step, spiT, fSvT, tspiM, prevSpiT) ==
    IF isInitial
    THEN [status |-> StatusAnalysis(spiT)]
    ELSE [status |-> StatusAnalysis(spiT),
          forecast |-> MilestoneAnalysis(fSvT),
          required |-> TspiAnalysis(tspiM),
          trend |-> TrendAnalysis(step, spiT, prevSpiT)]

\* Two-decimal values on and on either side of each threshold.
NarSPItInputs == {Num(0), Frac(89, 100), Frac(9, 10), Frac(99, 100), Num(1), Frac(113, 100)}
NarFSVtInputs == {NegInf, Frac(-101, 100), Num(-1), Frac(-1, 100), Num(0), Frac(11, 25)}
NarTSPIMInputs == {NegInf, Num(1), Frac(101, 100), Frac(12, 10), Frac(121, 100), PosInf}
NarStepInputs == 1..MaxSteps

NarInit ==
    /\ InitProgram /\ CalcIdle
    /\ narIsInitial \in BOOLEAN
    /\ narStep \in (IF narIsInitial THEN {0} ELSE NarStepInputs)
    /\ narSPIt \in NarSPItInputs
    /\ narFSVt \in NarFSVtInputs
    /\ narTSPIM \in NarTSPIMInputs
    /\ narPrevSPIt \in NarSPItInputs
    /\ narResult = NoResult

CallAnalysis ==
    /\ narResult = NoResult
    /\ narResult' = generateAIAnalysis(narIsInitial, narStep, narSPIt, narFSVt, narTSPIM,
                                       narPrevSPIt)
    /\ UNCHANGED <<progVars, calcVars, narIsInitial, narStep, narSPIt, narFSVt, narTSPIM,
                   narPrevSPIt>>

NarNext == CallAnalysis

NarSpec == NarInit /\ [][NarNext]_vars

\* A callback can fire exactly while some timer is active: every firing
\* either removes a timer or advances the step count.
TickEnabled == timers # {}

\* setInterval keeps firing its callback for as long as the timer is active:
\* weak fairness of Tick, written out with TickEnabled for ENABLED <<Tick>>_vars.
LiveSpec == Spec /\ ([]<>(~TickEnabled) \/ []<><<Tick>>_vars)

\* Every active timer is the one simulationInterval holds, so a firing
\* callback that finds the steps exhausted does cancel a timer.
ActiveTimerIsHeld == timers \subseteq {simulationInterval} /\ NoTimer \notin timers

\* ------------------------------------------------------------------------
\* Properties
\* ------------------------------------------------------------------------
Min(a, b) == IF a < b THEN a ELSE b
Complete == currentStep >= maxSteps
Initialized == currentMetrics # EmptyMetrics
LogLengths == {Len(simulationResults.periods), Len(simulationResults.pvValues),
               Len(simulationResults.evValues), Len(simulationResults.metrics)}

\* C1: after N runStep calls since initSimulation (manual, from startAutoPlay
\* or from timer ticks) the step count is min(N, maxSteps); a Step click at
\* step count >= maxSteps leaves the simulation data unchanged; the step log
\* never holds more than maxSteps entries.
StepCountIsMinOfCallsAndMax ==
    /\ [](currentStep = Min(stepCalls, maxSteps))
    /\ [](\A n \in LogLengths : n <= maxSteps)
    /\ [][(Complete /\ RunStep) => UNCHANGED dataVars]_vars

\* A step was requested beyond the end of a non-empty simulation.
StepBeyondMaxReached ==
    maxSteps > 0 /\ stepCalls > maxSteps /\ currentStep = maxSteps

\* C2: at most one interval timer is ever active, and startAutoPlay while
\* autoplay is running performs no step and creates no timer.
SingleAutoplayTimer ==
    /\ [](Cardinality(timers) <= 1)
    /\ [][(isRunning /\ StartAutoPlay) => UNCHANGED <<dataVars, ctlVars, stepCalls>>]_vars

\* Autoplay is running on its timer in the middle of a simulation.
AutoplayRunning ==
    isRunning /\ Cardinality(timers) = 1 /\ currentStep >= 1 /\ currentStep < maxSteps

\* The state stopSimulation leaves is one it maps to itself.
StopFixpoint ==
    /\ timers = (IF simulationInterval # NoTimer THEN timers \ {simulationInterval}
                 ELSE timers)
    /\ simulationInterval = NoTimer
    /\ isRunning = FALSE

\* C3: stopSimulation, in any state, leaves no active timer and isRunning
\* false, leaves a state a second stop does not change, and touches neither
\* the step count, the series, the metrics, the log nor the parameters.
StopIsIdempotentAndSafe ==
    [][StopSimulation =>
          /\ timers' = {}
          /\ ~isRunning'
          /\ StopFixpoint'
          /\ UNCHANGED <<dataVars, paramVars>>]_vars

\* Stop was pressed in the middle of a simulation that has run steps.
StoppedMidway == stopped /\ currentStep >= 1 /\ currentStep < maxSteps /\ ~isRunning

\* C4: from stopSimulation until the next runStep or startAutoPlay no interval
\* timer is active, so no elapsed interval runs a step.
NoTimerWhileStopped == stopped => timers = {}

\* Stop was pressed after autoplay had completed a simulation of two steps or more.
StoppedAfterSteps == stopped /\ currentStep >= 2 /\ timers = {}

\* initSimulation ran while autoplay was running (no runStep call since).
Reinitialized == isRunning /\ stepCalls = 0

\* C5: once autoplay runs on its timer, then, unless stopSimulation or a new
\* initSimulation intervenes, the step count reaches maxSteps and the timer is
\* cancelled with isRunning reset.
AutoplayRunsToCompletion ==
    (isRunning /\ timers # {}) ~>
        \/ currentStep = maxSteps /\ ~isRunning /\ timers = {}
        \/ stopped
        \/ Reinitialized

\* Autoplay has finished a simulation of two steps on its own.
AutoplayFinished ==
    /\ maxSteps = 2 /\ currentStep = 2 /\ stepCalls = 2
    /\ ~isRunning /\ ~stopped /\ timers = {}

SimStart ==
    \E md \in MilestoneInputs, steps \in StepsInputs, scen \in Scenarios,
       replan \in BOOLEAN : StartSimulation(md, steps, scen, replan)

\* C6: once the step count has reached maxSteps, runStep, startAutoPlay, a
\* timer tick and stopSimulation leave the series, the period, the metrics,
\* the step count and the log as they are; only startSimulation changes them.
CompleteIsTerminal ==
    [][(Complete /\ ~UNCHANGED dataVars) =>
           ~(\/ RunStep \/ StartAutoPlay \/ Tick \/ StopSimulation
             \/ ResetApp \/ \E v \in CurrentPeriodInputs : SetCurrentPeriod(v))]_vars

\* A completed simulation of at least one step on which Stop was then pressed.
CompleteAndStopped == maxSteps > 0 /\ Complete /\ stopped /\ stepCalls = maxSteps

\* C7: the factor a step would apply is at most 1.0 under recovery and at
\* least 0.7 under slippage, whatever SPI_t the current record holds.
TargetSPItWithinBounds ==
    /\ scenario = "recovery" =>
           ~Gt(TargetSPIt(scenario, ParsedSPIt(currentMetrics)), Num(1))
    /\ scenario = "slippage" =>
           ~Lt(TargetSPIt(scenario, ParsedSPIt(currentMetrics)), Frac(7, 10))

\* A recovery simulation that has run a step and whose SPI_t is above 1.
RecoveryAboveOne ==
    /\ scenario = "recovery" /\ currentStep >= 1 /\ ~Complete
    /\ Gt(ParsedSPIt(currentMetrics), Num(1))

\* C8: replanTime is the initial actualTime when re-planning is enabled and
\* null otherwise, and runStep, startAutoPlay, a timer tick and
\* stopSimulation change none of the captured parameters.
ParametersFixedAfterInit ==
    /\ [](replanTime = IF replanEnabled THEN initialAT ELSE Null)
    /\ [][~UNCHANGED paramVars =>
             ~(RunStep \/ StartAutoPlay \/ Tick \/ StopSimulation)]_vars

\* A re-planned simulation whose current period has moved past the re-plan.
ReplanBehindCurrentPeriod ==
    replanEnabled /\ replanTime = initialAT /\ currentAT > replanTime

IsAppend(old, new) == Len(new) = Len(old) + 1 /\ SubSeq(new, 1, Len(old)) = old

\* C9: the log changes only by initSimulation emptying it or by an executed
\* step appending one entry to each of its arrays; the recorded periods are
\* initialAT + 1, initialAT + 2, ...
LogIsAppendOnly ==
    /\ [](\A i \in 1..Len(simulationResults.periods) :
              simulationResults.periods[i] = initialAT + i)
    /\ [](LogLengths = {currentStep})
    /\ [][\/ UNCHANGED simulationResults
          \/ simulationResults' = EmptyResults /\ currentStep' = 0
          \/ /\ currentStep' = currentStep + 1
             /\ IsAppend(simulationResults.periods, simulationResults'.periods)
             /\ IsAppend(simulationResults.pvValues, simulationResults'.pvValues)
             /\ IsAppend(simulationResults.evValues, simulationResults'.evValues)
             /\ IsAppend(simulationResults.metrics, simulationResults'.metrics)
             /\ simulationResults'.metrics[currentStep'] = currentMetrics']_vars

\* Two steps logged, starting from period 3.
TwoEntriesLogged ==
    initialAT = 3 /\ simulationResults.periods = <<4, 5>>

\* C10: whenever a metrics record has been computed (by initSimulation or by
\* a step), the PV and EV series it was computed from reach the current
\* period.
SeriesCoverCurrentPeriod ==
    Initialized =>
        /\ Len(currentPV) >= currentAT + 1
        /\ Len(currentEV) >= currentAT + 1

\* A step has extended both series beyond the entered data.
SeriesExtendedByStep ==
    /\ currentStep >= 1
    /\ Len(currentPV) = currentAT + 1 /\ Len(currentPV) > Len(initialPV)
    /\ Len(currentEV) = currentAT + 1

calcLatestEV == LastOf(calcEV)
ESReturned == calcES # NoResult
MetricsReturned == calcMetrics # NoResult
NonDecreasing(pv) == \A i \in 1..(Len(pv) - 1) : Le(pv[i], pv[i + 1])
Floor(x) == x[1] \div x[2]
SetMax(S) == CHOOSE m \in S : \A o \in S : m >= o

\* C12: the ES returned for a non-empty PV series lies between 0 and the
\* length of the series, and so does the ES of a returned metrics record.
ESWithinSeries ==
    /\ ESReturned => Ge(calcES, Num(0)) /\ Le(calcES, Num(Len(calcPV)))
    /\ MetricsReturned =>
           Ge(calcMetrics.ES, Num(0)) /\ Le(calcMetrics.ES, Num(Len(calcPV)))

\* The same for the records the simulation computes.
SimESWithinSeries ==
    Initialized =>
        Ge(currentMetrics.ES, Num(0)) /\ Le(currentMetrics.ES, Num(Len(currentPV)))

\* An interpolated ES strictly inside a series that is not non-decreasing.
InteriorESOnIrregularSeries ==
    /\ ESReturned /\ ~NonDecreasing(calcPV)
    /\ calcES[2] > 1 /\ Gt(calcES, Num(1)) /\ Lt(calcES, Num(Len(calcPV)))

Selects(C, ev, pv) ==
    /\ C \in 0..(Len(pv) - 2)
    /\ \A j \in 0..C : Le(At(pv, j), ev)
    /\ Gt(At(pv, C + 1), ev)

\* C14: strictly between pvCum[C] and pvCum[C+1] the result is
\* (C + 1) + (EV - pvCum[C]) / (pvCum[C+1] - pvCum[C]); at pvCum[C] it is
\* C + 1; PV = [10,25,45,70,100] with EV = 38 gives 2.65.
ESInterpolation ==
    ESReturned =>
        /\ \A C \in 0..(Len(calcPV) - 2) :
               Selects(C, calcLatestEV, calcPV) =>
                   /\ Gt(calcLatestEV, At(calcPV, C)) =>
                          calcES = Add(Num(C + 1),
                                       Div(Sub(calcLatestEV, At(calcPV, C)),
                                           Sub(At(calcPV, C + 1), At(calcPV, C))))
                   /\ calcLatestEV = At(calcPV, C) => calcES = Num(C + 1)
        /\ (calcPV = defaultPV /\ calcLatestEV = Num(38)) => calcES = Frac(265, 100)

\* The worked example of the specification has been computed.
ESExampleComputed ==
    ESReturned /\ calcPV = defaultPV /\ calcLatestEV = Num(38) /\ calcES = Frac(265, 100)

\* The greatest index whose PV is at most EV, -1 when there is none.
GreatestIndex(ev, pv) ==
    LET S == {i \in 0..(Len(pv) - 1) : Le(At(pv, i), ev)}
    IN  IF S = {} THEN -1 ELSE SetMax(S)

\* C15 as stated: the result is built on the greatest index C with
\* pvCum[C] <= EV, whatever the order of the PV entries (the result lies in
\* [C + 1, C + 2), and is 0 when there is no such index).
ESFromGreatestIndex ==
    ESReturned => Floor(calcES) - 1 = GreatestIndex(calcLatestEV, calcPV)

\* C16: for a non-decreasing PV series the result does not decrease when EV
\* increases, and it is never negative.
ESMonotoneInEV ==
    (ESReturned /\ NonDecreasing(calcPV)) =>
        /\ Ge(calcES, Num(0))
        /\ \A ev \in CalcEVValues :
               /\ Le(calcLatestEV, ev) =>
                      Le(calcES, calculateEarnedSchedule(ev, calcPV))
               /\ Le(ev, calcLatestEV) =>
                      Le(calculateEarnedSchedule(ev, calcPV), calcES)

\* Two EV values inside the same non-decreasing series with different results.
ESStrictlyIncreases ==
    /\ ESReturned /\ NonDecreasing(calcPV) /\ calcES[2] > 1
    /\ \E ev \in CalcEVValues :
           Lt(ev, calcLatestEV) /\ Lt(calculateEarnedSchedule(ev, calcPV), calcES)
                                /\ Gt(calculateEarnedSchedule(ev, calcPV), Num(0))

\* SPI_t as calculateMetrics computes it from the ES it obtained.
calcSPIt == IF calcAT = 0 THEN Num(1) ELSE Div(calcES, Num(calcAT))

\* C17: the record's SV_t is ES - actualTime and its SPI_t is 1.0 at
\* actualTime 0 whatever ES is, ES / actualTime otherwise (each as the
\* two-decimal string the record holds).
ScheduleIndicesFromES ==
    (ESReturned /\ MetricsReturned) =>
        /\ calcMetrics.ES = ToFixed2(calcES)
        /\ calcMetrics.SV_t = ToFixed2(Sub(calcES, Num(calcAT)))
        /\ calcAT = 0 => calcMetrics.SPI_t = Num(1)
        /\ calcAT # 0 => calcMetrics.SPI_t = ToFixed2(Div(calcES, Num(calcAT)))

\* actualTime 0 with an ES well above 1: SPI_t is still 1.0.
SPItAtTimeZero ==
    /\ ESReturned /\ MetricsReturned /\ calcAT = 0
    /\ Gt(calcES, Num(2)) /\ calcMetrics.SPI_t = Num(1)

\* C18 as stated: on the returned record, IEAC_t_M * SPI_t is M within
\* floating tolerance (1e-9) and F_SV_t is M - IEAC_t_M exactly.
MilestoneRoundTrip ==
    (MetricsReturned /\ calcMD # Null /\ Gt(calcMetrics.SPI_t, Num(0))) =>
        /\ AbsLtEps(Sub(Mul(calcMetrics.IEAC_t_M, calcMetrics.SPI_t), Num(calcMD)))
        /\ calcMetrics.F_SV_t = Sub(Num(calcMD), calcMetrics.IEAC_t_M)

\* The two halves of C18 taken separately.
MilestoneProductOnRecord ==
    (MetricsReturned /\ calcMD # Null /\ Gt(calcMetrics.SPI_t, Num(0))) =>
        AbsLtEps(Sub(Mul(calcMetrics.IEAC_t_M, calcMetrics.SPI_t), Num(calcMD)))
MilestoneVarianceOnRecord ==
    (MetricsReturned /\ calcMD # Null /\ Gt(calcMetrics.SPI_t, Num(0))) =>
        calcMetrics.F_SV_t = Sub(Num(calcMD), calcMetrics.IEAC_t_M)

\* C19: when the current period equals milestoneDuration, at initSimulation
\* or after a step, the record's TSPI_M is positive infinity.
TSPIInfiniteAtMilestone ==
    (Initialized /\ milestoneDuration = currentAT) => currentMetrics.TSPI_M = PosInf

\* The same for a direct call of calculateMetrics.
CalcTSPIInfiniteAtMilestone ==
    (MetricsReturned /\ calcMD = calcAT) => calcMetrics.TSPI_M = PosInf

\* A step has moved the current period onto the milestone.
SteppedOntoMilestone ==
    /\ currentStep >= 1 /\ initialAT < milestoneDuration
    /\ currentAT = milestoneDuration /\ currentMetrics.TSPI_M = PosInf

\* C20: SPI_t <= 0 gives IEAC_t_M = +Infinity, and SPI_t_rem <= 0 gives
\* IEAC_t_RP = +Infinity.
ForecastInfiniteWithoutProgress ==
    (ESReturned /\ MetricsReturned) =>
        /\ (calcMD # Null /\ Le(calcSPIt, Num(0))) => calcMetrics.IEAC_t_M = PosInf
        /\ (calcRP # Null
              /\ Le(RemSPIt(calcPV, calcEV, calcAT, calcRP, calcSPIt), Num(0))) =>
               calcMetrics.IEAC_t_RP = PosInf

\* EV below the first PV entry after the start, before and after a re-plan.
NoProgressBothForecasts ==
    /\ ESReturned /\ MetricsReturned /\ calcMD # Null /\ calcRP # Null
    /\ calcAT > calcRP /\ Len(calcEV) > calcRP
    /\ calcES = Num(0) /\ calcMetrics.SPI_t = Num(0) /\ calcMetrics.SPI_t_rem = Num(0)
    /\ calcMetrics.IEAC_t_M = PosInf /\ calcMetrics.IEAC_t_RP = PosInf

\* ------------------------------------------------------------------------
\* The simulation's steps and records
\* ------------------------------------------------------------------------
\* SPI_t of the current series before formatting: ES / actualTime.
CurrentRawSPIt ==
    RawSPIt(calculateEarnedSchedule(LastOf(currentEV), currentPV), currentAT)

\* C21: the SPI_t that the next step reads from the current metrics record
\* (and that the trend compares) is the unrounded ES / actualTime of the
\* current series.
StepReadsUnroundedSPIt ==
    Initialized => ParsedSPIt(currentMetrics) = CurrentRawSPIt

StepExecuted == currentStep' = currentStep + 1

\* C23: an executed step appends exactly one value, last + (last - first) /
\* (length - 1) over the whole current PV series, when that series has no
\* entry for the new period, and leaves the PV series as it is when it has.
PVExtendedByAverageIncrement ==
    [][StepExecuted =>
          IF Len(currentPV) <= currentAT + 1
          THEN currentPV' =
                   Push(currentPV,
                        Add(LastOf(currentPV),
                            Div(Sub(LastOf(currentPV), At(currentPV, 0)),
                                Num(Len(currentPV) - 1))))
          ELSE currentPV' = currentPV]_vars

\* Two steps on the whole plan: the first found its PV entry, the second
\* appended 100 + (100 - 10) / 4.
PlanKeptThenExtended ==
    /\ initialPV = defaultPV /\ currentStep = 2
    /\ currentPV = Push(defaultPV, Frac(245, 2))

\* The factor the claim gives for a scenario and the SPI_t of the record
\* held before the step.
ScenarioFactor(scen, prevSPIt) ==
    CASE scen = "recovery" -> MathMin(Num(1), Add(prevSPIt, Frac(5, 100)))
      [] scen = "slippage" -> MathMax(Frac(7, 10), Sub(prevSPIt, Frac(3, 100)))
      [] OTHER -> prevSPIt

\* C24: an executed step appends previous last EV + factor * pvIncrement,
\* with pvIncrement = PV[new period] - PV[previous period] and the factor
\* min(1.0, SPI_t + 0.05) for recovery, max(0.7, SPI_t - 0.03) for slippage
\* and SPI_t for maintain, SPI_t being that of the record held before the
\* step.
EVIncrementByScenario ==
    [][StepExecuted =>
          currentEV' =
              Push(currentEV,
                   Add(LastOf(currentEV),
                       Mul(ScenarioFactor(scenario, currentMetrics.SPI_t),
                           Sub(At(currentPV', currentAT + 1),
                               At(currentPV', currentAT)))))]_vars

\* A slippage step from SPI_t = 0: the factor is the floor 0.7, the PV
\* increment 15, the EV appended 8 + 10.5.
SlippageStepAtFloor ==
    /\ scenario = "slippage" /\ currentStep = 1
    /\ currentEV = <<Num(5), Num(8), Frac(37, 2)>>

\* C25: an executed step appends exactly one EV, appends at most one PV,
\* moves the current period on by exactly 1 and replaces the current metrics
\* by the record calculateMetrics gives for the extended series; a runStep
\* that finds the steps exhausted leaves both series, the period and the
\* metrics as they are.
StepGrowsSeriesByOne ==
    /\ [][StepExecuted =>
             /\ IsAppend(currentEV, currentEV')
             /\ (currentPV' = currentPV \/ IsAppend(currentPV, currentPV'))
             /\ currentAT' = currentAT + 1
             /\ currentMetrics' = calculateMetrics(currentPV', currentEV', currentAT',
                                                   milestoneDuration, replanTime)]_vars
    /\ [][(StepsExhausted /\ (RunStep \/ StartAutoPlay \/ Tick)) =>
             UNCHANGED <<currentPV, currentEV, currentAT, currentMetrics>>]_vars

\* A step that found its PV entry in the plan: EV grew by one, PV did not.
EVGrewPVKept ==
    /\ initialPV = defaultPV /\ currentStep = 1 /\ currentAT = 4
    /\ currentPV = defaultPV /\ Len(currentEV) = Len(initialEV) + 1

IsPrefix(old, new) == Len(old) <= Len(new) /\ SubSeq(new, 1, Len(old)) = old

\* C26: after initSimulation, whatever state it was called in, and until a
\* runStep call, the step count is 0 and the log empty, the captured and the
\* current series are the supplied ones, the current period is actualTime
\* and the current metrics are those of the supplied series, with nothing
\* logged; steps afterwards leave the captured initial series alone and only
\* add to the current ones.
InitSimulationResets ==
    /\ []((Initialized /\ stepCalls = 0) =>
             /\ currentStep = 0
             /\ simulationResults = EmptyResults
             /\ <<initialPV, initialEV, initialAT>> \in CoreInputs
             /\ currentPV = initialPV /\ currentEV = initialEV
             /\ currentAT = initialAT
             /\ currentMetrics = calculateMetrics(initialPV, initialEV, initialAT,
                                                  milestoneDuration, replanTime))
    /\ [][StepExecuted => UNCHANGED <<initialPV, initialEV>>]_vars
    /\ [](IsPrefix(initialPV, currentPV) /\ IsPrefix(initialEV, currentEV))

\* initSimulation was called on a simulation whose autoplay was running: the
\* new simulation has not stepped and its log is empty.
InitializedOverAutoplay ==
    /\ isRunning /\ timers # {} /\ stepCalls = 0 /\ maxSteps > 0
    /\ currentStep = 0 /\ currentPV = defaultPV /\ simulationResults = EmptyResults

\* C27: with a replanTime the record's D_pre is replanTime and its PD_rem is
\* the PV series length less replanTime; its SPI_t_rem is the ES of the latest
\* EV over the PV series from replanTime on, divided by actualTime -
\* replanTime, when actualTime > replanTime and the EV series reaches beyond
\* replanTime, and is the record's SPI_t in every other case (each as the
\* two-decimal string the record holds).
ReplanFieldsFromSubSeries ==
    (MetricsReturned /\ calcRP # Null) =>
        /\ calcMetrics.D_pre = Num(calcRP)
        /\ calcMetrics.PD_rem = Num(Len(calcPV) - calcRP)
        /\ IF calcAT > calcRP /\ Len(calcEV) > calcRP
           THEN calcMetrics.SPI_t_rem =
                    ToFixed2(Div(calculateEarnedSchedule(
                                     calcEV[Len(calcEV)],
                                     SubSeq(calcPV, calcRP + 1, Len(calcPV))),
                                 Num(calcAT - calcRP)))
           ELSE calcMetrics.SPI_t_rem = calcMetrics.SPI_t

\* The same for the record initSimulation computes with re-planning enabled:
\* replanTime is actualTime, so SPI_t_rem is SPI_t.
InitialRecordRemIsOverall ==
    (Initialized /\ stepCalls = 0 /\ replanEnabled) =>
        currentMetrics.SPI_t_rem = currentMetrics.SPI_t

\* A record whose SPI_t_rem came from the sub-series after the re-plan and
\* differs from the overall SPI_t.
RemComputedFromSubSeries ==
    /\ MetricsReturned /\ calcRP = 1 /\ calcAT = 2 /\ Len(calcEV) >= 2
    /\ calcMetrics.SPI_t_rem # calcMetrics.SPI_t

BaseFieldNames == {"ES", "SV_t", "SPI_t"}
MilestoneFieldNames == {"IEAC_t_M", "F_SV_t", "TSPI_M"}
ReplanFieldNames == {"D_pre", "PD_rem", "SPI_t_rem", "IEAC_t_RP"}

\* C28: a returned record always has ES, SV_t and SPI_t; it has the three
\* milestone fields exactly when a milestoneDuration was given and the four
\* re-plan fields exactly when a replanTime was given, and no other field.
FieldsFollowOptionalInputs ==
    MetricsReturned =>
        DOMAIN calcMetrics =
            BaseFieldNames
                \cup (IF calcMD # Null THEN MilestoneFieldNames ELSE {})
                \cup (IF calcRP # Null THEN ReplanFieldNames ELSE {})

\* A record with the re-plan fields and without the milestone fields.
ReplanFieldsWithoutMilestone ==
    /\ MetricsReturned /\ calcMD = Null /\ calcRP # Null
    /\ DOMAIN calcMetrics = BaseFieldNames \cup ReplanFieldNames

\* ------------------------------------------------------------------------
\* The narrative
\* ------------------------------------------------------------------------
AnalysisReturned == narResult # NoResult

\* C29: the analysis of a step classifies the current metrics by fixed
\* thresholds: status by SPI_t at 0.9 and 1.0, forecast by F_SV_t at -1 and 0,
\* required improvement by TSPI_M at 1.2 and 1.0, and, from the second step on,
\* the trend by comparing SPI_t with that of the preceding step, stable
\* meaning exactly equal.
NarrativeTracksThresholds ==
    (AnalysisReturned /\ ~narIsInitial) =>
        /\ narResult.status = "significantly behind" <=> Lt(narSPIt, Frac(9, 10))
        /\ narResult.status = "slightly behind" <=>
               (Ge(narSPIt, Frac(9, 10)) /\ Lt(narSPIt, Num(1)))
        /\ narResult.status \in {"significantly behind", "slightly behind", "on or ahead"}
        /\ narResult.forecast = "significantly late" <=> Lt(narFSVt, Num(-1))
        /\ narResult.forecast = "slightly late" <=>
               (Ge(narFSVt, Num(-1)) /\ Lt(narFSVt, Num(0)))
        /\ narResult.forecast \in {"significantly late", "slightly late", "on time or early"}
        /\ narResult.required = "significant" <=> Gt(narTSPIM, Frac(12, 10))
        /\ narResult.required = "some" <=>
               (Gt(narTSPIM, Num(1)) /\ Le(narTSPIM, Frac(12, 10)))
        /\ narResult.required \in {"significant", "some", "sufficient"}
        /\ narStep >= 2 =>
               /\ narResult.trend = "improving" <=> Gt(narSPIt, narPrevSPIt)
               /\ narResult.trend = "declining" <=> Lt(narSPIt, narPrevSPIt)
               /\ narResult.trend = "stable" <=> narSPIt = narPrevSPIt

\* A second-step analysis on the thresholds themselves: SPI_t 0.9 unchanged
\* from the step before, F_SV_t -1 and TSPI_M 1.2.
AnalysisOnThresholds ==
    /\ AnalysisReturned /\ ~narIsInitial /\ narStep = 2
    /\ narSPIt = Frac(9, 10) /\ narPrevSPIt = Frac(9, 10)
    /\ narFSVt = Num(-1) /\ narTSPIM = Frac(12, 10)
    /\ narResult = [status |-> "slightly behind", forecast |-> "slightly late",
                    required |-> "some", trend |-> "stable"]

\* C30: after initSimulation and until runStep or startAutoPlay is called,
\* isRunning is false and no interval timer is active that could step the
\* new simulation.
NoAutoplayAfterInit ==
    (Initialized /\ stepCalls = 0) => (~isRunning /\ timers = {})

\* ------------------------------------------------------------------------
\* Autoplay, extrapolation and the shape of the state
\* ------------------------------------------------------------------------
\* C31: between handlers isRunning is true exactly when an interval timer is
\* held and active; a manual step that completes the simulation during
\* autoplay cancels the timer and clears isRunning, and no timer is active
\* while isRunning is false.
RunningIffTimerActive ==
    /\ [](isRunning <=> simulationInterval # NoTimer)
    /\ [](isRunning <=> timers # {})
    /\ [][(RunStep /\ isRunning /\ StepExecuted /\ currentStep' >= maxSteps) =>
             (~isRunning' /\ timers' = {} /\ simulationInterval' = NoTimer)]_vars

\* Autoplay is running on its timer one step before the end: the next step,
\* manual or from the timer, is the one that has to cancel it.
AutoplayOneStepFromEnd ==
    /\ isRunning /\ simulationInterval # NoTimer /\ timers = {simulationInterval}
    /\ maxSteps >= 2 /\ currentStep = maxSteps - 1

AllFinite(s) == \A i \in 1..Len(s) : IsFinite(s[i])

\* C32: every value in the current PV and EV series and in the log's PV and
\* EV arrays is a finite number, also when the simulation was initialised
\* with a single-entry PV series (actualTime 0).
AppendedValuesFinite ==
    /\ AllFinite(currentPV) /\ AllFinite(currentEV)
    /\ AllFinite(simulationResults.pvValues) /\ AllFinite(simulationResults.evValues)

StrictlyIncreasing(pv) == \A i \in 1..(Len(pv) - 1) : Lt(pv[i], pv[i + 1])

\* C33: for a strictly increasing PV series and actualTime > 0, a latest EV
\* equal to the PV of the current period gives SV_t = 0 and SPI_t = 1, and a
\* latest EV below it gives SV_t < 0 and SPI_t < 1.
OnPlanMeansNoVariance ==
    (MetricsReturned /\ calcAT > 0 /\ calcAT < Len(calcPV) /\ StrictlyIncreasing(calcPV)) =>
        /\ calcLatestEV = calcPV[calcAT + 1] =>
               (calcMetrics.SV_t = Num(0) /\ calcMetrics.SPI_t = Num(1))
        /\ Lt(calcLatestEV, calcPV[calcAT + 1]) =>
               (Lt(calcMetrics.SV_t, Num(0)) /\ Lt(calcMetrics.SPI_t, Num(1)))

\* A step is still to be run on an initialised simulation.
StepPending == Initialized /\ ~StepsExhausted

\* The SPI_t the pending step reads and the factor it derives from it.
PendingSPIt == ParsedSPIt(currentMetrics)
PendingTarget == TargetSPIt(scenario, PendingSPIt)

PlanEndsAtActualTime ==
    Initialized /\ Len(initialPV) = initialAT + 1 /\ Len(initialPV) >= 2

\* (last - first) / (length - 1) of the initial PV series.
InitialAverageIncrement ==
    Div(Sub(initialPV[Len(initialPV)], initialPV[1]), Num(Len(initialPV) - 1))

\* C35: from a PV series of actualTime + 1 entries, at least two, every
\* extrapolated PV value exceeds its predecessor by the average increment of
\* the initial series, although the average is recomputed at each step.
ExtrapolatedIncrementConstant ==
    PlanEndsAtActualTime =>
        /\ Len(currentPV) = Len(initialPV) + currentStep
        /\ \A i \in (Len(initialPV) + 1)..Len(currentPV) :
               Sub(currentPV[i], currentPV[i - 1]) = InitialAverageIncrement

\* Two values were extrapolated, the second from an average taken over a
\* series that already holds the first.
ExtrapolatedTwice ==
    /\ PlanEndsAtActualTime /\ currentStep >= 2
    /\ Len(currentPV) = Len(initialPV) + 2
    /\ Gt(InitialAverageIncrement, Num(0))

\* C36: from a non-decreasing initial PV series of non-negative values the
\* current PV series and the simulated part of the EV series are
\* non-decreasing in every reachable state.
SimulatedSeriesNonDecreasing ==
    (/\ Initialized
     /\ \A i \in 1..Len(initialPV) : Ge(initialPV[i], Num(0))
     /\ \A i \in 2..Len(initialPV) : Ge(initialPV[i], initialPV[i - 1])) =>
        /\ \A i \in 2..Len(currentPV) : Ge(currentPV[i], currentPV[i - 1])
        /\ \A i \in (Len(initialEV) + 1)..Len(currentEV) :
               Ge(currentEV[i], currentEV[i - 1])

\* C37: after initialisation the current period is the initial actual time
\* plus the step count, each of the four log arrays has as many entries as
\* steps were run, the EV series has grown by one entry per step, and after
\* the first step the current metrics record is the last one of the log.
StepCountAccountsForState ==
    Initialized =>
        /\ currentAT = initialAT + currentStep
        /\ Len(simulationResults.periods) = currentStep
        /\ Len(simulationResults.pvValues) = currentStep
        /\ Len(simulationResults.evValues) = currentStep
        /\ Len(simulationResults.metrics) = currentStep
        /\ Len(currentEV) = Len(initialEV) + currentStep
        /\ currentStep > 0 =>
               currentMetrics = simulationResults.metrics[Len(simulationResults.metrics)]

\* Two steps were run and their two records differ, so that the current
\* record is told apart from the first one of the log.
TwoDistinctRecordsLogged ==
    /\ Initialized /\ currentStep = 2
    /\ Len(simulationResults.metrics) = 2
    /\ simulationResults.metrics[1] # simulationResults.metrics[2]
    /\ currentAT = initialAT + 2

\* C38: startAutoPlay called while autoplay is not running and the simulation
\* is not complete runs exactly one step before it returns, with the timer
\* installed, so that startAutoPlay after stopSimulation advances the step
\* count by one; called on a complete simulation it runs no step, and the
\* timer it installs is cancelled by its first firing, again without a step.
StartAutoPlayStepsOnce ==
    /\ [][(~isRunning /\ ~Complete /\ StartAutoPlay) =>
             (StepExecuted /\ isRunning' /\ timers' = {simulationInterval'}
              /\ simulationInterval' # NoTimer)]_vars
    /\ [][(stopped /\ ~Complete /\ StartAutoPlay) => StepExecuted]_vars
    /\ [][(~isRunning /\ Complete /\ StartAutoPlay) =>
             (UNCHANGED dataVars /\ isRunning' /\ timers' = {simulationInterval'}
              /\ simulationInterval' # NoTimer)]_vars
    /\ [][(Complete /\ Tick) =>
             (UNCHANGED dataVars /\ ~isRunning' /\ timers' = {}
              /\ simulationInterval' = NoTimer)]_vars

\* Autoplay has just been started on a fresh simulation of two steps: its
\* immediate step is the only runStep call and the timer has not fired.
AutoplayStartedWithOneStep ==
    /\ isRunning /\ timers # {} /\ ~stopped
    /\ maxSteps >= 2 /\ currentStep = 1 /\ stepCalls = 1

\* The simulation data as the constructor leaves it.
ConstructedData ==
    /\ currentStep = 0 /\ maxSteps = 0
    /\ currentPV = <<>> /\ currentEV = <<>> /\ currentAT = 0
    /\ simulationResults = EmptyResults

\* C39: before initSimulation was ever called, runStep, startAutoPlay, timer
\* firings and stopSimulation append nothing to the series or to the log and
\* leave the step count alone: the object is a complete simulation of zero
\* steps.
UninitializedNeverSteps ==
    /\ [](~Initialized => (ConstructedData /\ Complete))
    /\ [][(~Initialized /\ (RunStep \/ StartAutoPlay \/ Tick \/ StopSimulation)) =>
             UNCHANGED dataVars]_vars

\* On the constructed object runStep was called twice, the second time by
\* startAutoPlay, whose timer is active.
UninitializedAfterCalls ==
    /\ ~Initialized /\ stepCalls >= 2
    /\ isRunning /\ timers # {}

=============================================================================
